---- MODULE Spec2Model ----
(***************************************************************************)
(* Model of trading_gpt: the ETL refresh (src/etl/refresh.py) that fetches *)
(* daily bars per ticker, adds EMAs and upserts them into the DuckDB table *)
(* ohlcv, and the read API (src/api/main.py) that serves /quote and /chart *)
(* from the same table.                                                    *)
(*                                                                         *)
(* A bar is abstracted to (symbol, dt, close) plus the three EMA columns;  *)
(* open/high/low/volume are carried by the code but decide nothing here.   *)
(* Timestamps are calendar days written as the integer YYYYMMDD.  Strings  *)
(* that the code parses (the period) are sequences of one-character        *)
(* strings.  A DOUBLE is modelled by the exact reduced fraction <<n, d>>.  *)
(***************************************************************************)
EXTENDS Bags, FiniteSets, Integers, Sequences, TLC

VARIABLES
    TICKERS,    \* refresh.py: the configured universe (read from the environment at start)
    store,      \* the committed rows of table ohlcv: a bag of rows
    mpc,        \* refresh.py main(): position of the ETL process
    i,          \* refresh.py main(): index of `sym` in TICKERS
    raw,        \* refresh.py fetch(): the frame yf.download returned (None outside fetch)
    d,          \* refresh.py main(): the DataFrame `d` of the current symbol
    dcols,      \* refresh.py main(): the columns of `d`
    lastLog,    \* refresh.py: the last line printed before the closing "[done]" line
    status,     \* outcome logged for each position of TICKERS in the current run
    pre,        \* history: the rows of ohlcv when the running upsert_duckdb was called
    latest,     \* history: per (symbol, dt), the closes of the last batch whose upsert completed
    lastFrame,  \* history: the frame of the last completed upsert, while ohlcv is as it left it
    API_KEY,    \* main.py: the configured shared secret (None when unset)
    rpc,        \* main.py: position of the request being served
    req,        \* main.py: the request being served
    win,        \* main.py _load(): the parsed period <<n, unit>>
    df,         \* main.py quote()/chart(): the frame returned by _load
    resp,       \* main.py: the response of the last request
    accessed,   \* history: what the request being served did to the database
    now         \* the wall clock (a calendar day)

vars == <<TICKERS, store, mpc, i, raw, d, dcols, lastLog, status, pre, latest,
          lastFrame, API_KEY, rpc, req, win, df, resp, accessed, now>>
etlVars == <<TICKERS, store, mpc, i, raw, d, dcols, lastLog, status, pre, latest,
            lastFrame>>
apiVars == <<API_KEY, rpc, req, win, df, resp, accessed, now>>

(***************************************************************************)
(* Bounds and domains                                                      *)
(***************************************************************************)
MaxBatch == 2                      \* rows in one downloaded frame

Symbols == {"AAA", "BBB"}
Dates   == {20240330, 20240630}
Closes  == {10, 12}
None    == "None"

Min(a, b) == IF a < b THEN a ELSE b

Range(s) == {s[j] : j \in 1..Len(s)}

(***************************************************************************)
(* Exact arithmetic for the DOUBLE columns                                 *)
(***************************************************************************)
RECURSIVE GCD(_, _)
GCD(a, b) == IF b = 0 THEN a ELSE GCD(b, a % b)

Frac(n, m) == LET g == GCD(n, m) IN <<n \div g, m \div g>>

(***************************************************************************)
(* refresh.py                                                              *)
(***************************************************************************)
EMA_WINDOWS == <<8, 21, 50>>

EmaName(w) == CASE w = 8 -> "ema8" [] w = 21 -> "ema21" [] w = 50 -> "ema50"

Upper(s) ==
    CASE s = "aaa" -> "AAA" [] s = "bbb" -> "BBB" [] s = "nope" -> "NOPE"
      [] OTHER -> s

Lower(c) ==
    CASE c = "Date" -> "date" [] c = "Datetime" -> "datetime"
      [] c = "Open" -> "open" [] c = "High" -> "high" [] c = "Low" -> "low"
      [] c = "Close" -> "close" [] c = "Volume" -> "volume"
      [] c = "Adj Close" -> "adj close"
      [] OTHER -> c

\* The frames yf.download can hand back: the column names it carries (after
\* reset_index and flattening) and its bars in index order.
RawColumns ==
    { {"Date", "Open", "High", "Low", "Close", "Volume"},
      {"Datetime", "Open", "High", "Low", "Close", "Volume"},
      {"Date", "Open", "High", "Low", "Volume"},
      {"index", "Open", "High", "Low", "Close", "Volume"} }

\* A downloaded frame is indexed by time in ascending order; the index is not
\* required to be unique.
RawRows(dates) ==
    UNION { {s \in [1..n -> [dt : dates, close : Closes]] :
               \A j \in 1..(n - 1) : s[j].dt <= s[j + 1].dt}
            : n \in 0..MaxBatch }

Required == {"dt", "open", "high", "low", "close", "volume"}

\* fetch() without the empty-frame return of lines 20-22.
FetchNoEmptyCheck(symbol, cols, rows) ==
    LET lowered == {Lower(c) : c \in cols}
        renamed == IF "date" \in lowered
                   THEN (lowered \ {"date"}) \cup {"dt"}
                   ELSE IF "datetime" \in lowered
                   THEN (lowered \ {"datetime"}) \cup {"dt"}
                   ELSE lowered
        missing == Required \ renamed
    IN  IF missing # {}
        THEN [err |-> "KeyError", missing |-> missing, got |-> renamed,
              rows |-> <<>>]
        ELSE [err |-> None, missing |-> {}, got |-> renamed,
              rows |-> [j \in 1..Len(rows) |->
                          [symbol |-> Upper(symbol), dt |-> rows[j].dt,
                           close |-> rows[j].close]]]

\* fetch() whose KeyError lists the columns as they were before the rename of
\* lines 31-34.
FetchGotBeforeRename(symbol, cols, rows) ==
    LET f == FetchNoEmptyCheck(symbol, cols, rows)
    IN  IF Len(rows) = 0
        THEN [err |-> None, missing |-> {}, got |-> {}, rows |-> <<>>]
        ELSE [f EXCEPT !.got = {Lower(c) : c \in cols}]

\* fetch() from line 20 on, given the downloaded frame: the empty frame, a
\* frame without the required columns (err = "KeyError"), or the normalised rows.
Fetch(symbol, cols, rows) ==
    IF Len(rows) = 0
    THEN [err |-> None, missing |-> {}, got |-> {}, rows |-> <<>>]
    ELSE LET lowered == {Lower(c) : c \in cols}
             renamed == IF "date" \in lowered
                        THEN (lowered \ {"date"}) \cup {"dt"}
                        ELSE IF "datetime" \in lowered
                        THEN (lowered \ {"datetime"}) \cup {"dt"}
                        ELSE lowered
             missing == Required \ renamed
         IN  IF missing # {}
             THEN [err |-> "KeyError", missing |-> missing, got |-> renamed,
                   rows |-> <<>>]
             ELSE [err |-> None, missing |-> {}, got |-> renamed,
                   rows |-> [j \in 1..Len(rows) |->
                               [symbol |-> Upper(symbol), dt |-> rows[j].dt,
                                close |-> rows[j].close]]]

\* An exponential average smoothed with alpha = 1/w instead of 2/(w+1).
RECURSIVE EwmAlphaOverW(_, _)
EwmAlphaOverW(closes, w) ==
    IF Len(closes) = 0 THEN <<>>
    ELSE IF Len(closes) = 1 THEN <<Frac(closes[1], 1)>>
    ELSE LET head == EwmAlphaOverW(SubSeq(closes, 1, Len(closes) - 1), w)
             prev == head[Len(head)]
             c    == closes[Len(closes)]
         IN  Append(head, Frac(c * prev[2] + (w - 1) * prev[1], w * prev[2]))

\* Series.ewm(span=w, adjust=False).mean() over the closes, in row order.
RECURSIVE Ewm(_, _)
Ewm(closes, w) ==
    IF Len(closes) = 0 THEN <<>>
    ELSE IF Len(closes) = 1 THEN <<Frac(closes[1], 1)>>
    ELSE LET head == Ewm(SubSeq(closes, 1, Len(closes) - 1), w)
             prev == head[Len(head)]
             c    == closes[Len(closes)]
         IN  Append(head, Frac(2 * c * prev[2] + (w - 1) * prev[1],
                               (w + 1) * prev[2]))

\* A DOUBLE without a value (NaN in the frame, NULL in the table).
Null == <<>>

\* add_emas() with min_periods=w: the first w - 1 rows get no value.
AddEmasMinPeriods(frame, windows) ==
    IF Len(frame) = 0 THEN frame
    ELSE LET closes == [j \in 1..Len(frame) |-> frame[j].close]
             names  == {EmaName(windows[k]) : k \in 1..Len(windows)}
             span(n) == windows[CHOOSE k \in 1..Len(windows) :
                                 EmaName(windows[k]) = n]
         IN  [j \in 1..Len(frame) |->
                frame[j] @@ [n \in names |->
                               IF j < span(n) THEN Null
                               ELSE Ewm(closes, span(n))[j]]]

\* add_emas(): one column per window, named from the window.
AddEmas(frame, windows) ==
    IF Len(frame) = 0 THEN frame
    ELSE LET closes == [j \in 1..Len(frame) |-> frame[j].close]
             names  == {EmaName(windows[k]) : k \in 1..Len(windows)}
             col(n) == Ewm(closes, windows[CHOOSE k \in 1..Len(windows) :
                                             EmaName(windows[k]) = n])
         IN  [j \in 1..Len(frame) |->
                frame[j] @@ [n \in names |-> col(n)[j]]]

\* CREATE TEMP TABLE stage AS SELECT * FROM df
SeqToBag(s) == [r \in Range(s) |-> Cardinality({j \in 1..Len(s) : s[j] = r})]

\* A DELETE whose WHERE clause matches no row.
DeleteUsingNothing(ohlcv, stage) == ohlcv

\* A DELETE that matches on the symbol alone.
DeleteUsingSymbol(ohlcv, stage) ==
    LET kept == {r \in DOMAIN ohlcv :
                   ~ \E x \in DOMAIN stage : r.symbol = x.symbol}
    IN  [r \in kept |-> ohlcv[r]]

\* DELETE FROM ohlcv USING stage WHERE ohlcv.symbol = stage.symbol AND ohlcv.dt = stage.dt
DeleteUsing(ohlcv, stage) ==
    LET kept == {r \in DOMAIN ohlcv :
                   ~ \E x \in DOMAIN stage : r.symbol = x.symbol /\ r.dt = x.dt}
    IN  [r \in kept |-> ohlcv[r]]

\* INSERT INTO ohlcv SELECT * FROM stage
InsertFrom(ohlcv, stage) == ohlcv (+) stage

\* upsert_duckdb() run to completion.
UpsertDuckdb(ohlcv, frame) ==
    InsertFrom(DeleteUsing(ohlcv, SeqToBag(frame)), SeqToBag(frame))

Keys(frame) == {<<frame[j].symbol, frame[j].dt>> : j \in 1..Len(frame)}
AllKeys == Symbols \X Dates

Pending(tickers) == [k \in 1..Len(tickers) |-> "pending"]

\* The columns of the frame fetch returns: the empty frame of line 22 and the
\* selection of lines 39-40 carry the same seven.
FetchColumns == Required \cup {"symbol"}

\* The columns of the frame add_emas returns: an empty frame comes back as it
\* is, any other gains one column per window.
AddEmasColumns(cols, frame, windows) ==
    IF Len(frame) = 0 THEN cols
    ELSE cols \cup {EmaName(windows[k]) : k \in 1..Len(windows)}

\* The columns of table ohlcv (lines 55-66).
TableColumns ==
    {"dt", "open", "high", "low", "close", "volume", "symbol",
     "ema8", "ema21", "ema50"}

\* INSERT INTO ohlcv SELECT * FROM stage binds the columns of stage to those
\* of ohlcv by position; it is rejected unless there are as many.
InsertBinds(cols) == Cardinality(cols) = Cardinality(TableColumns)

\* A printed line: its tag, the symbol it is about, the row count it states
\* and, for an "[error]" line, the exception it quotes.
NoLine ==
    [tag |-> "", sym |-> "", n |-> 0, cause |-> "", missing |-> {}, got |-> {}]
Line(tag, sym) == [NoLine EXCEPT !.tag = tag, !.sym = sym]
RowsLine(tag, sym, n) == [Line(tag, sym) EXCEPT !.n = n]
ErrorLine(tag, sym, cause) == [Line(tag, sym) EXCEPT !.cause = cause]

\* A loop that takes up the same symbol again.
NextSymbolAgain ==
    /\ i' = i
    /\ d' = <<>>
    /\ dcols' = {}
    /\ mpc' = IF i + 1 > Len(TICKERS) THEN "done" ELSE "fetch"

\* `continue` / the end of the loop body: the next symbol, or the end of main().
\* The frame `d` is dead from here until the next fetch assigns it.
NextSymbol ==
    /\ i' = i + 1
    /\ d' = <<>>
    /\ dcols' = {}
    /\ mpc' = IF i + 1 > Len(TICKERS) THEN "done" ELSE "fetch"

\* main() is started (lines 77-80); the process can be started again once a
\* run has ended.
MainStart ==
    /\ mpc \in {"idle", "done", "aborted"}
    /\ i' = 1
    /\ mpc' = IF Len(TICKERS) = 0 THEN "done" ELSE "fetch"
    /\ d' = <<>>
    /\ dcols' = {}
    /\ lastLog' = Line("config", "")
    /\ status' = Pending(TICKERS)
    /\ UNCHANGED <<TICKERS, store, raw, pre, latest, lastFrame>>
    /\ UNCHANGED apiVars

\* Lines 81-85 and 17-19: fetch is called and downloads; an exception of the
\* download reaches the except of line 83.
MainDownload(dates) ==
    /\ mpc = "fetch"
    /\ \/ \E cols \in RawColumns, rows \in RawRows(dates) :
            /\ raw' = [cols |-> cols, rows |-> rows]
            /\ mpc' = "normalize"
            /\ lastLog' = Line("fetch starting", TICKERS[i])
            /\ UNCHANGED <<i, d, dcols, status>>
       \/ /\ status' = [status EXCEPT ![i] = "failed"]
          /\ raw' = None
          /\ lastLog' = ErrorLine("error fetching", TICKERS[i], "download")
          /\ NextSymbol
    /\ UNCHANGED <<TICKERS, store, pre, latest, lastFrame>>
    /\ UNCHANGED apiVars

\* Lines 20-42 and 83-88: the rest of fetch, the except, and the empty check.
MainNormalize ==
    /\ mpc = "normalize"
    /\ LET f == Fetch(TICKERS[i], raw.cols, raw.rows) IN
         IF f.err # None
         THEN /\ status' = [status EXCEPT ![i] = "failed"]
              /\ lastLog' = [ErrorLine("error fetching", TICKERS[i], f.err)
                               EXCEPT !.missing = f.missing, !.got = f.got]
              /\ NextSymbol
         ELSE IF Len(f.rows) = 0
         THEN /\ status' = [status EXCEPT ![i] = "skipped"]
              /\ lastLog' = Line("warn no data", TICKERS[i])
              /\ NextSymbol
         ELSE /\ d' = f.rows
              /\ dcols' = FetchColumns
              /\ mpc' = "add_emas"
              /\ lastLog' = RowsLine("fetch rows", TICKERS[i], Len(f.rows))
              /\ UNCHANGED <<i, status>>
    /\ raw' = None
    /\ UNCHANGED <<TICKERS, store, pre, latest, lastFrame>>
    /\ UNCHANGED apiVars

\* Line 89: add_emas, outside any try: an exception from ewm().mean() leaves main().
MainAddEmas ==
    /\ mpc = "add_emas"
    /\ \/ /\ d' = AddEmas(d, EMA_WINDOWS)
          /\ dcols' = AddEmasColumns(dcols, d, EMA_WINDOWS)
          /\ mpc' = "upsert"
       \/ /\ mpc' = "aborted"
          /\ UNCHANGED <<d, dcols>>
    /\ UNCHANGED <<TICKERS, store, i, raw, lastLog, status, pre, latest, lastFrame>>
    /\ UNCHANGED apiVars

\* The except of lines 93-94, reached from any statement of upsert_duckdb.
UpsertRaised(cause) ==
    /\ status' = [status EXCEPT ![i] = "failed"]
    /\ lastLog' = ErrorLine("error upserting", TICKERS[i], cause)
    /\ pre' = EmptyBag
    /\ lastFrame' = IF mpc = "insert" /\ store # pre THEN <<>> ELSE lastFrame
    /\ NextSymbol

\* Lines 52-68: connect, CREATE TABLE IF NOT EXISTS, stage the frame.
UpsertStage ==
    /\ mpc = "upsert"
    /\ \/ /\ mpc' = "delete"
          /\ pre' = store
          /\ lastLog' = Line("duckdb connecting", "")
          /\ UNCHANGED <<i, d, dcols, status, lastFrame>>
       \/ UpsertRaised("storage")
    /\ UNCHANGED <<TICKERS, store, raw, latest>>
    /\ UNCHANGED apiVars

\* Lines 69-72: the DELETE, committed on its own.
UpsertDelete ==
    /\ mpc = "delete"
    /\ \/ /\ store' = DeleteUsing(store, SeqToBag(d))
          /\ mpc' = "insert"
          /\ UNCHANGED <<i, d, dcols, lastLog, status, pre, lastFrame>>
       \/ /\ UpsertRaised("storage")
          /\ UNCHANGED store
    /\ UNCHANGED <<TICKERS, raw, latest>>
    /\ UNCHANGED apiVars

\* Lines 73-75 and 92: the INSERT, committed on its own, then "[ok]".  A
\* stage that does not have the columns of ohlcv is rejected when the
\* statement is bound.
UpsertInsert ==
    /\ mpc = "insert"
    /\ \/ /\ InsertBinds(dcols)
          /\ store' = InsertFrom(store, SeqToBag(d))
          /\ lastLog' = RowsLine("ok upserted", TICKERS[i], Len(d))
          /\ status' = [status EXCEPT ![i] = "ok"]
          /\ latest' = [k \in AllKeys |->
                          IF k \in Keys(d)
                          THEN {r.close : r \in {x \in Range(d) : <<x.symbol, x.dt>> = k}}
                          ELSE latest[k]]
          /\ lastFrame' = d
          /\ pre' = EmptyBag
          /\ NextSymbol
       \/ /\ UpsertRaised(IF InsertBinds(dcols) THEN "storage" ELSE "binder")
          /\ UNCHANGED <<store, latest>>
    /\ UNCHANGED <<TICKERS, raw>>
    /\ UNCHANGED apiVars

EtlNext(dates) ==
    \/ MainStart
    \/ MainDownload(dates)
    \/ MainNormalize
    \/ MainAddEmas
    \/ UpsertStage
    \/ UpsertDelete
    \/ UpsertInsert

EtlInit(tickers) ==
    /\ TICKERS = tickers
    /\ store = EmptyBag
    /\ mpc = "idle"
    /\ i = 1
    /\ raw = None
    /\ d = <<>>
    /\ dcols = {}
    /\ lastLog = NoLine
    /\ status = Pending(tickers)
    /\ pre = EmptyBag
    /\ latest = [k \in AllKeys |-> {}]
    /\ lastFrame = <<>>

(***************************************************************************)
(* main.py                                                                 *)
(***************************************************************************)
Str1mo == <<"1", "m", "o">>
Str6mo == <<"6", "m", "o">>

Whitespace == {" "}
Digits == {"0", "1", "2", "3", "4", "5", "6", "7", "8", "9"}

DigitValue(c) ==
    CASE c = "0" -> 0 [] c = "1" -> 1 [] c = "2" -> 2 [] c = "3" -> 3
      [] c = "4" -> 4 [] c = "5" -> 5 [] c = "6" -> 6 [] c = "7" -> 7
      [] c = "8" -> 8 [] c = "9" -> 9

LowerChar(c) ==
    CASE c = "M" -> "m" [] c = "O" -> "o" [] c = "Y" -> "y" [] c = "R" -> "r"
      [] c = "X" -> "x"
      [] OTHER -> c

\* str.strip()
RECURSIVE Strip(_)
Strip(s) ==
    IF Len(s) = 0 THEN s
    ELSE IF s[1] \in Whitespace THEN Strip(Tail(s))
    ELSE IF s[Len(s)] \in Whitespace THEN Strip(SubSeq(s, 1, Len(s) - 1))
    ELSE s

\* str.lower()
LowerStr(s) == [j \in 1..Len(s) |-> LowerChar(s[j])]

\* str.endswith()
EndsWith(s, suffix) ==
    /\ Len(s) >= Len(suffix)
    /\ SubSeq(s, Len(s) - Len(suffix) + 1, Len(s)) = suffix

\* s[:-k]
DropLast(s, k) == SubSeq(s, 1, Len(s) - k)

RECURSIVE DecimalValue(_)
DecimalValue(s) ==
    IF Len(s) = 0 THEN 0
    ELSE 10 * DecimalValue(DropLast(s, 1)) + DigitValue(s[Len(s)])

\* int(): surrounding whitespace and one sign are accepted; anything else
\* than decimal digits raises ValueError.
PyInt(s) ==
    LET t      == Strip(s)
        signed == Len(t) > 0 /\ t[1] \in {"+", "-"}
        body   == IF signed THEN Tail(t) ELSE t
    IN  IF Len(body) = 0 \/ \E j \in 1..Len(body) : body[j] \notin Digits
        THEN [ok |-> FALSE, val |-> 0]
        ELSE [ok |-> TRUE,
              val |-> IF signed /\ t[1] = "-" THEN 0 - DecimalValue(body)
                      ELSE DecimalValue(body)]

\* _load lines 48-53: the period as <<n, unit>>, or the ValueError of int().
ParsePeriod(period) ==
    LET s == LowerStr(Strip(IF Len(period) = 0 THEN Str6mo ELSE period)) IN
    IF EndsWith(s, <<"m", "o">>)
    THEN LET n == PyInt(DropLast(s, 2)) IN
         [ok |-> n.ok, win |-> <<n.val, "mo">>]
    ELSE IF EndsWith(s, <<"y", "r">>) \/ EndsWith(s, <<"y">>)
    THEN LET n == PyInt(IF EndsWith(s, <<"y", "r">>) THEN DropLast(s, 2)
                        ELSE DropLast(s, 1)) IN
         [ok |-> n.ok, win |-> <<n.val, "yr">>]
    ELSE [ok |-> TRUE, win |-> <<6, "mo">>]

\* Calendar arithmetic of dateutil.relativedelta on a day YYYYMMDD.
IsLeap(y) == (y % 4 = 0 /\ y % 100 # 0) \/ y % 400 = 0

DaysIn(y, m) ==
    IF m = 2 THEN (IF IsLeap(y) THEN 29 ELSE 28)
    ELSE IF m \in {4, 6, 9, 11} THEN 30 ELSE 31

MinusMonths(day, n) ==
    LET y   == day \div 10000
        m   == (day \div 100) % 100
        dd  == day % 100
        tot == y * 12 + (m - 1) - n
        y2  == tot \div 12
        m2  == (tot % 12) + 1
    IN  y2 * 10000 + m2 * 100 + Min(dd, DaysIn(y2, m2))

MinusYears(day, n) == MinusMonths(day, 12 * n)

MaxDt(frame) ==
    CHOOSE t \in {frame[j].dt : j \in 1..Len(frame)} :
        \A j \in 1..Len(frame) : frame[j].dt <= t

\* The window anchored to the wall clock.
WindowEndNow(frame) == now

\* _load line 64: the day the window is anchored to.
WindowEnd(frame) == MaxDt(frame)

\* _load line 65.
WindowStart(end, w) ==
    IF w[2] = "yr" THEN MinusYears(end, w[1]) ELSE MinusMonths(end, w[1])

\* df[df["dt"] >= start]
RECURSIVE FromDt(_, _)
FromDt(frame, start) ==
    IF Len(frame) = 0 THEN <<>>
    ELSE IF frame[1].dt >= start THEN <<frame[1]>> \o FromDt(Tail(frame), start)
    ELSE FromDt(Tail(frame), start)

\* _load lines 62-66 on the frame the SELECT returned.
Window(frame, w) ==
    IF Len(frame) = 0 THEN frame
    ELSE FromDt(frame, WindowStart(WindowEnd(frame), w))

\* WHERE symbol = ?
SymbolRows(ohlcv, symbol) ==
    [r \in {x \in DOMAIN ohlcv : x.symbol = symbol} |-> ohlcv[r]]

\* ORDER BY dt: every order of the rows that is ascending in dt (rows of one
\* dt come in any order).
RECURSIVE OrderByDt(_)
OrderByDt(rows) ==
    IF DOMAIN rows = {} THEN {<<>>}
    ELSE LET first == {r \in DOMAIN rows : \A x \in DOMAIN rows : r.dt <= x.dt}
         IN  UNION { {<<r>> \o rest : rest \in OrderByDt(rows (-) SetToBag({r}))}
                     : r \in first }

\* SELECT * FROM ohlcv WHERE symbol = ? ORDER BY dt
QueryBySymbol(ohlcv, symbol) == OrderByDt(SymbolRows(ohlcv, symbol))

\* require_key refusing only a header that was sent.
RequireKeyRaisesIfSent(apiKey, xApiKey) ==
    apiKey \notin {None, ""} /\ xApiKey # None /\ xApiKey # apiKey

\* require_key: TRUE when the request is refused.
RequireKeyRaises(apiKey, xApiKey) ==
    apiKey \notin {None, ""} /\ xApiKey # apiKey

\* round(pct, 3), in thousandths: the nearest, ties to even.
RoundThousandths(num, den) ==
    LET q == (1000 * num) \div den
        r == (1000 * num) - q * den
    IN  IF 2 * r < den THEN q
        ELSE IF 2 * r > den THEN q + 1
        ELSE IF q % 2 = 0 THEN q ELSE q + 1

\* quote lines 74-83.
QuoteBody(symbol, frame) ==
    LET last == frame[Len(frame)]
        prev == IF Len(frame) > 1 THEN frame[Len(frame) - 1] ELSE last
    IN  [symbol |-> Upper(symbol), dt |-> last.dt, close |-> last.close,
         pct_change |-> IF prev.close = 0 THEN 0
                        ELSE RoundThousandths((last.close - prev.close) * 100,
                                              prev.close)]

NoRequest ==
    [endpoint |-> "none", symbol |-> "", key |-> None, given |-> FALSE,
     period |-> <<>>]
NoResponse == [status |-> 0, body |-> ""]

\* A request arrives: its endpoint, query parameters and X-API-Key header.
Request(requests) ==
    /\ rpc = "idle"
    /\ \E r \in requests : req' = r
    /\ rpc' = "auth"
    /\ resp' = NoResponse
    /\ df' = <<>>
    /\ win' = <<6, "mo">>
    /\ accessed' = "no"
    /\ UNCHANGED <<API_KEY, now>>
    /\ UNCHANGED etlVars

\* The dependency require_key runs before the endpoint function.
RequireKey ==
    /\ rpc = "auth"
    /\ IF RequireKeyRaises(API_KEY, req.key)
       THEN /\ resp' = [status |-> 401, body |-> "Unauthorized"]
            /\ rpc' = "idle"
       ELSE /\ rpc' = "handler"
            /\ UNCHANGED resp
    /\ UNCHANGED <<API_KEY, req, win, df, accessed, now>>
    /\ UNCHANGED etlVars

\* _load raises: the ValueError of int() on the period, outside the try.
LoadRaises(period) == ~ ParsePeriod(period).ok

\* _load: an exception of the connect or the SELECT becomes the empty frame;
\* otherwise the rows of the symbol, windowed.
Load(symbol, period) ==
    IF LoadRaises(period)
    THEN UNCHANGED <<win, df, accessed>>
    ELSE /\ win' = ParsePeriod(period).win
         /\ \/ /\ accessed' = "raised"
               /\ df' = <<>>
            \/ /\ accessed' = "read"
               /\ \E rows \in QueryBySymbol(store, Upper(symbol)) :
                     df' = Window(rows, win')

\* GET /quote
Quote ==
    /\ rpc = "handler"
    /\ req.endpoint = "quote"
    /\ Load(req.symbol, Str1mo)
    /\ resp' = IF LoadRaises(Str1mo)
               THEN [status |-> 500, body |-> "Internal Server Error"]
               ELSE IF Len(df') = 0
               THEN [status |-> 404, body |-> "No data"]
               ELSE [status |-> 200, body |-> QuoteBody(req.symbol, df')]
    /\ rpc' = "idle"
    /\ UNCHANGED <<API_KEY, req, now>>
    /\ UNCHANGED etlVars

\* The period parameter of /chart defaults to "6mo".
ChartPeriod(r) == IF r.given THEN r.period ELSE Str6mo

\* GET /chart
Chart ==
    /\ rpc = "handler"
    /\ req.endpoint = "chart"
    /\ Load(req.symbol, ChartPeriod(req))
    /\ resp' = IF LoadRaises(ChartPeriod(req))
               THEN [status |-> 500, body |-> "Internal Server Error"]
               ELSE IF Len(df') = 0
               THEN [status |-> 404, body |-> "No data"]
               ELSE [status |-> 200,
                     body |-> [png |-> Upper(req.symbol), points |-> Len(df')]]
    /\ rpc' = "idle"
    /\ UNCHANGED <<API_KEY, req, now>>
    /\ UNCHANGED etlVars

\* The wall clock advances.
Tick ==
    /\ now = 20240630
    /\ now' = 20241231
    /\ UNCHANGED <<API_KEY, rpc, req, win, df, resp, accessed>>
    /\ UNCHANGED etlVars

ApiInit(keys) ==
    /\ API_KEY \in keys
    /\ rpc = "idle"
    /\ req = NoRequest
    /\ win = <<6, "mo">>
    /\ df = <<>>
    /\ resp = NoResponse
    /\ accessed = "no"
    /\ now = 20240630

\* The requests of the model.
Headers == {None, "k1", "bad"}
QuerySymbols == {"aaa", "BBB", "NOPE"}
Periods ==
    { <<"3", "m", "o">>, <<"1", "y">>, <<"1", "y", "r">>,
      <<" ", "1", "M", "O", " ">>, <<>>, <<" ">>, <<"a", "b", "c">>,
      <<"x", "m", "o">>, <<"m", "o">>, <<"1", ".", "5", "y">>,
      <<"0", "m", "o">>, <<"-", "1", "m", "o">> }

QuoteRequests ==
    [endpoint : {"quote"}, symbol : QuerySymbols, key : Headers,
     given : {FALSE}, period : {<<>>}]
ChartRequests ==
    [endpoint : {"chart"}, symbol : QuerySymbols, key : Headers,
     given : {TRUE}, period : Periods]
      \cup [endpoint : {"chart"}, symbol : QuerySymbols, key : Headers,
            given : {FALSE}, period : {<<>>}]
Requests == QuoteRequests \cup ChartRequests

ApiNext(requests) ==
    \/ Request(requests)
    \/ RequireKey
    \/ Quote
    \/ Chart

(***************************************************************************)
(* Specifications                                                          *)
(***************************************************************************)
\* The ETL run over two tickers.
Init == EtlInit(<<"AAA", "BBB">>) /\ ApiInit({None})

Next == EtlNext({20240630})

Spec == Init /\ [][Next]_vars

\* The ETL run over one ticker with two days of history.
InitOne == EtlInit(<<"AAA">>) /\ ApiInit({None})

NextOne == EtlNext(Dates)

SpecOne == InitOne /\ [][NextOne]_vars

\* The API over a table that one completed run over <<"AAA">> has filled.
FilledFrames ==
    {AddEmas(Fetch("AAA", {"Date", "Open", "High", "Low", "Close", "Volume"},
                   rows).rows, EMA_WINDOWS)
       : rows \in RawRows(Dates)}

InitApi ==
    /\ TICKERS = <<"AAA">>
    /\ \E frame \in FilledFrames :
         /\ store = UpsertDuckdb(EmptyBag, frame)
         /\ status = IF Len(frame) = 0 THEN <<"skipped">> ELSE <<"ok">>
         /\ latest = [k \in AllKeys |->
                        {r.close : r \in {x \in Range(frame) : <<x.symbol, x.dt>> = k}}]
         /\ lastFrame = frame
         /\ lastLog = IF Len(frame) = 0 THEN Line("warn no data", "AAA")
                       ELSE RowsLine("ok upserted", "AAA", Len(frame))
    /\ mpc = "done"
    /\ i = 2
    /\ raw = None
    /\ d = <<>>
    /\ dcols = {}
    /\ pre = EmptyBag
    /\ ApiInit({None, "", "k1"})

NextApi == ApiNext(Requests) \/ Tick

SpecApi == InitApi /\ [][NextApi]_vars

\* A chart request while the ETL runs over one ticker.
ConcRequests ==
    [endpoint : {"chart"}, symbol : {"aaa"}, key : {None},
     given : {TRUE}, period : {<<"1", "y">>}]

NextConc == EtlNext({20240630}) \/ Request(ConcRequests) \/ RequireKey \/ Chart

SpecConc == InitOne /\ [][NextConc]_vars

\* upsert_duckdb called with a frame as fetch and add_emas hand it on (the
\* empty frame included), over a table that an earlier upsert has filled.
PipelineFrames(symbol) ==
    {AddEmas(Fetch(symbol, {"Date", "Open", "High", "Low", "Close", "Volume"},
                   rows).rows, EMA_WINDOWS)
       : rows \in RawRows(Dates)}

InitUpsert ==
    /\ \E sym \in Symbols, held \in Symbols :
         \E frame \in PipelineFrames(sym), old \in PipelineFrames(held) :
           /\ TICKERS = <<sym>>
           /\ d = frame
           /\ dcols = AddEmasColumns(FetchColumns, frame, EMA_WINDOWS)
           /\ store = UpsertDuckdb(EmptyBag, old)
           /\ latest = [k \in AllKeys |->
                          {r.close : r \in {x \in Range(old) : <<x.symbol, x.dt>> = k}}]
           /\ lastFrame = old
    /\ mpc = "upsert"
    /\ i = 1
    /\ raw = None
    /\ lastLog = NoLine
    /\ status = <<"pending">>
    /\ pre = EmptyBag
    /\ ApiInit({None})

NextUpsert == UpsertStage \/ UpsertDelete \/ UpsertInsert

SpecUpsert == InitUpsert /\ [][NextUpsert]_vars

(***************************************************************************)
(* Properties                                                              *)
(***************************************************************************)
KeyRows(ohlcv, k) ==
    [r \in {x \in DOMAIN ohlcv : <<x.symbol, x.dt>> = k} |-> ohlcv[r]]

KeyCount(ohlcv, k) == BagCardinality(KeyRows(ohlcv, k))

KeysRows(ohlcv, ks) ==
    [r \in {x \in DOMAIN ohlcv : <<x.symbol, x.dt>> \in ks} |-> ohlcv[r]]

Terminal == {"ok", "skipped", "failed"}

\* C1: in every reachable state of table ohlcv no two stored rows share the
\* same (symbol, dt).
C1_KeyUnique == \A k \in AllKeys : KeyCount(store, k) <= 1

\* C2: upsert is idempotent: when the frame of the last completed upsert is
\* upserted again on the table as that upsert left it, the completed second
\* upsert leaves the table exactly as it found it.
C2_Idempotent ==
    [][(mpc = "insert" /\ status'[i] = "ok" /\ lastFrame = d) => store' = pre]_vars

\* The second upsert of the same frame has deleted its keys and is about to insert.
C2_Witness == mpc = "insert" /\ lastFrame = d /\ store # pre

\* C3: overlap replace: between upserts, for every key that a completed upsert
\* has written, the query of its symbol holds exactly one row of that key, and
\* its close is the one of the last batch that contained the key.
C3_OverlapReplace ==
    mpc # "insert" =>
      \A k \in AllKeys :
        latest[k] # {} =>
          \A q \in QueryBySymbol(store, k[1]) :
            \E j \in 1..Len(q) :
              /\ q[j].dt = k[2]
              /\ q[j].close \in latest[k]
              /\ \A l \in 1..Len(q) : q[l].dt = k[2] => l = j

\* C4: a failure at any point of upsert_duckdb leaves the stored rows as they
\* were when it was called.
C4_AllOrNothing ==
    [][(mpc \in {"upsert", "delete", "insert"} /\ status'[i] = "failed")
         => store' = (IF mpc = "upsert" THEN store ELSE pre)]_vars

\* C5: a failure in any step of a symbol is caught: the run never aborts, the
\* failure marks only that symbol failed and moves on to the next symbol, and
\* a finished run has every symbol in a terminal state.
C5_FailureIsolation ==
    [][/\ mpc' # "aborted"
       /\ (mpc \notin {"idle", "done", "aborted"} /\ status' # status
             /\ status'[i] = "failed")
            => /\ status' = [status EXCEPT ![i] = "failed"]
               /\ i' = i + 1
               /\ mpc' \in {"fetch", "done"}
       /\ mpc' = "done" => \A k \in 1..Len(TICKERS) : status'[k] \in Terminal]_vars

\* C6: a download of zero rows is a skip: fetch returns without raising, the
\* symbol is logged skipped (not failed), the loop moves to the next symbol
\* without calling upsert_duckdb, and the table is unchanged.
C6_EmptySkip ==
    [][(mpc = "normalize" /\ Len(raw.rows) = 0)
         => /\ status' = [status EXCEPT ![i] = "skipped"]
            /\ store' = store
            /\ d' = <<>>
            /\ i' = i + 1
            /\ mpc' \in {"fetch", "done"}]_vars

\* A symbol was skipped while the other one has rows in the table.
C6_Witness ==
    /\ \E k \in 1..Len(TICKERS) : status[k] = "skipped"
    /\ store # EmptyBag

\* C7: a read that interleaves with an upsert of its symbol sees, for the keys
\* of the batch, either the rows from before the upsert or the rows of the batch.
C7_ReadIsolation ==
    [][(rpc = "handler" /\ accessed' = "read" /\ mpc \in {"delete", "insert"})
         => SeqToBag(SelectSeq(df', LAMBDA r : <<r.symbol, r.dt>> \in Keys(d)))
              \in {KeysRows(pre, Keys(d)), SeqToBag(d)}]_vars

\* C8: the frame _load returns is exactly the stored rows of the symbol from
\* (latest stored dt minus the period) to the latest stored dt, ascending in
\* dt; the wall clock plays no part.
C8_WindowAnchored ==
    [][(rpc = "handler" /\ accessed' = "read")
         => LET rows     == SymbolRows(store, Upper(req.symbol))
                latestDt == CHOOSE t \in {r.dt : r \in DOMAIN rows} :
                              \A r \in DOMAIN rows : r.dt <= t
                start    == WindowStart(latestDt, win')
            IN  IF DOMAIN rows = {} THEN df' = <<>>
                ELSE /\ SeqToBag(df') =
                          [r \in {x \in DOMAIN rows :
                                    start <= x.dt /\ x.dt <= latestDt} |-> rows[r]]
                     /\ \A j \in 1..(Len(df') - 1) : df'[j].dt <= df'[j + 1].dt]_vars

\* A read returned a proper, non-empty part of the stored rows of its symbol.
C8_Witness ==
    /\ rpc = "idle"
    /\ accessed = "read"
    /\ Len(df) > 0
    /\ Len(df) < BagCardinality(SymbolRows(store, Upper(req.symbol)))

\* A period of the form: a positive integer, then mo, y or yr.
WellFormedPeriod(period) ==
    LET s == LowerStr(Strip(period)) IN
    \E unit \in {<<"m", "o">>, <<"y">>, <<"y", "r">>} :
      /\ EndsWith(s, unit)
      /\ LET prefix == DropLast(s, Len(unit)) IN
           /\ Len(prefix) > 0
           /\ \A j \in 1..Len(prefix) : prefix[j] \in Digits
           /\ DecimalValue(prefix) > 0

\* C9: for every period that is not given or not of the form above, /chart
\* raises no error and uses the window of 6 months.
C9_DefaultPeriod ==
    (/\ rpc = "idle"
     /\ req.endpoint = "chart"
     /\ resp.status # 401
     /\ ~ (req.given /\ WellFormedPeriod(req.period)))
      => (resp.status # 500 /\ win = <<6, "mo">>)

\* C10: with the secret configured, a request to /quote or /chart whose header
\* is missing or different is answered 401, and nothing of it reaches the
\* database.
C10_Unauthorized ==
    (req.endpoint \in {"quote", "chart"} /\ API_KEY \notin {None, ""}
       /\ req.key # API_KEY)
      => /\ accessed = "no"
         /\ rpc # "handler"
         /\ rpc = "idle" => resp.status = 401

\* A request without the header, or with a wrong one, has been refused.
C10_Witness ==
    /\ API_KEY = "k1"
    /\ rpc = "idle"
    /\ req.endpoint = "quote"
    /\ req.key \in {None, "bad"}
    /\ resp.status = 401
    /\ accessed = "no"

\* C11: when the database cannot be read while a request is served, the
\* response is the generic server failure (500), not the 404 of a symbol
\* that has no rows.
C11_StorageErrorIs500 ==
    (rpc = "idle" /\ accessed = "raised") => resp.status = 500

\* The request was for a symbol that has no stored row.
NoStoredRows(symbol) == SymbolRows(store, Upper(symbol)) = EmptyBag

\* C12: a request for a symbol with no stored rows, whatever its period, gets
\* an empty frame from _load and is answered 404; nothing is raised.
C12_UnknownSymbolEmpty ==
    (/\ rpc = "idle"
     /\ req.endpoint \in {"quote", "chart"}
     /\ resp.status # 401
     /\ NoStoredRows(req.symbol))
        => (df = <<>> /\ resp.status = 404)

\* The field names of a raw series after lower-casing and renaming the time
\* field ("date", else "datetime") to "dt".
PresentFields(cols) ==
    LET low == {Lower(c) : c \in cols}
        time == IF "date" \in low THEN {"date"}
                ELSE IF "datetime" \in low THEN {"datetime"} ELSE {}
    IN  IF time = {} THEN low ELSE (low \ time) \cup {"dt"}

MissingFields(cols) ==
    {"dt", "open", "high", "low", "close", "volume"} \ PresentFields(cols)

\* C13: normalising a downloaded series fails with the schema error (KeyError)
\* exactly when the series is non-empty and lacks a required field; the error
\* then names every missing field and all fields present, the symbol is
\* failed and no rows are handed on.
C13_SchemaError ==
    [][mpc = "normalize" =>
         LET absent == Len(raw.rows) > 0 /\ MissingFields(raw.cols) # {}
         IN  /\ absent <=> (lastLog'.cause = "KeyError")
             /\ absent =>
                   /\ lastLog'.tag = "error fetching"
                   /\ lastLog'.missing = MissingFields(raw.cols)
                   /\ lastLog'.got = PresentFields(raw.cols)
                   /\ status'[i] = "failed"
                   /\ d' = <<>>
                   /\ store' = store]_vars

\* A series that lacks "close" has just been refused, and the error says so.
C13_Witness ==
    /\ lastLog.cause = "KeyError"
    /\ "close" \in lastLog.missing
    /\ "dt" \in lastLog.got
    /\ status[i - 1] = "failed"

\* The fraction e is alpha*c + (1 - alpha)*p for alpha = 2/(w + 1), that is
\* (w + 1)*e = 2*c + (w - 1)*p, with the denominators multiplied out.
EmaStep(e, c, p, w) ==
    (w + 1) * e[1] * p[2] = e[2] * (2 * c * p[2] + (w - 1) * p[1])

\* C14: add_emas leaves the rows and their order as they are and sets, for
\* each window w on its own, ema{w} of the first row to its close and ema{w}
\* of every later row to alpha*close + (1 - alpha)*(ema{w} of the row before)
\* with alpha = 2/(w + 1); an empty frame comes back unchanged.
C14_EmaRecurrence ==
    [][(mpc = "add_emas" /\ mpc' = "upsert") =>
         /\ Len(d') = Len(d)
         /\ \A j \in 1..Len(d) :
               /\ d'[j].symbol = d[j].symbol
               /\ d'[j].dt = d[j].dt
               /\ d'[j].close = d[j].close
               /\ \A k \in 1..Len(EMA_WINDOWS) :
                     LET w == EMA_WINDOWS[k]
                         e == d'[j][EmaName(w)]
                     IN  /\ e[2] > 0
                         /\ IF j = 1
                            THEN e[1] = d[1].close * e[2]
                            ELSE EmaStep(e, d[j].close, d'[j - 1][EmaName(w)], w)
         /\ AddEmas(<<>>, EMA_WINDOWS) = <<>>]_vars

\* EMAs have been added to a frame of two bars with different closes.
C14_Witness ==
    /\ mpc = "upsert"
    /\ Len(d) >= 2
    /\ d[1].close # d[2].close
    /\ d[2].ema8 # d[2].ema21

\* The number of symbols the run has logged with the given outcome.
Count(outcome) == Cardinality({k \in 1..Len(TICKERS) : status[k] = outcome})

\* C15: when a run ends, what it has reported counts every symbol of the
\* universe as exactly one of ok, skipped (empty) and failed, so the three
\* counts sum to the size of the universe; and the row count reported for an
\* ok symbol is the number of rows of the batch that was upserted.
C15_RunSummary ==
    [][/\ (mpc' \in {"done", "aborted"} /\ mpc' # mpc) =>
             (Count("ok") + Count("skipped") + Count("failed"))' = Len(TICKERS)
       /\ (mpc = "insert" /\ status'[i] = "ok") =>
             (lastLog'.tag = "ok upserted" /\ lastLog'.n = Len(d))]_vars

\* C16: an upsert of an empty batch changes no stored row and is not refused:
\* it ends in an error only when the database itself is unavailable.
C16_EmptyUpsertNoOp ==
    [][(mpc \in {"upsert", "delete", "insert"} /\ Len(d) = 0) =>
         /\ store' = store
         /\ lastLog'.cause # "binder"
         /\ (mpc = "insert" /\ lastLog'.cause # "storage") => status'[i] = "ok"]_vars

\* C17: no statement of an upsert of batch B adds, removes or alters a stored
\* row whose (symbol, dt) is not a key of B: rows of other symbols and rows of
\* the same symbol at other timestamps stay as they are.
C17_OnlyBatchKeys ==
    [][(mpc \in {"upsert", "delete", "insert"}) =>
         \A k \in (AllKeys \ Keys(d)) :
            KeyRows(store', k) = KeyRows(store, k)
      ]_vars

\* A non-empty batch has just been upserted over a table that holds a row
\* under a key the batch does not have.
C17_Witness ==
    /\ mpc = "done"
    /\ status[1] = "ok"
    /\ lastLog.n > 0
    /\ \E k \in (AllKeys \ Keys(lastFrame)) : KeyCount(store, k) > 0
    /\ \E k \in Keys(lastFrame) : KeyCount(store, k) > 0

\* The steps a symbol goes through, in order: Fetching, Normalizing,
\* ComputingIndicators, Persisting.
StepRank(pc) ==
    CASE pc = "fetch" -> 1
      [] pc = "normalize" -> 2
      [] pc = "add_emas" -> 3
      [] pc \in {"upsert", "delete", "insert"} -> 4
      [] OTHER -> 0

InStep(pc) == StepRank(pc) > 0

\* C18: within a run the symbols are taken one at a time in the order of the
\* universe, each once: while a symbol is in a step, every earlier symbol is
\* terminal and every later one has not started; a symbol moves from a step
\* only to the next step or to a terminal outcome, after which the next
\* symbol of the universe starts; an outcome once logged stays; and a run
\* that completes has taken every symbol.
C18_Sequential ==
    [][/\ InStep(mpc') =>
             /\ i' \in 1..Len(TICKERS)
             /\ status'[i'] = "pending"
             /\ \A k \in 1..Len(TICKERS) :
                   /\ k < i' => status'[k] \in Terminal
                   /\ k > i' => status'[k] = "pending"
       /\ (InStep(mpc) /\ InStep(mpc') /\ i' = i) =>
             /\ StepRank(mpc') \in {StepRank(mpc), StepRank(mpc) + 1}
             /\ StepRank(mpc') = StepRank(mpc) => StepRank(mpc) = 4
       /\ (InStep(mpc) /\ i' # i) =>
             /\ i' = i + 1
             /\ status'[i] \in Terminal
             /\ mpc' = IF i' > Len(TICKERS) THEN "done" ELSE "fetch"
       /\ InStep(mpc) =>
             \A k \in 1..Len(TICKERS) :
                status[k] \in Terminal => status'[k] = status[k]
       /\ mpc' = "done" =>
             \A k \in 1..Len(TICKERS) : status'[k] \in Terminal]_vars

\* The second symbol is being persisted after the first one ended.
C18_Witness ==
    /\ i = 2
    /\ mpc = "insert"
    /\ status[1] \in Terminal
    /\ status[2] = "pending"

\* The rows the table held before the statements of the running upsert.
Committed == IF mpc \in {"delete", "insert"} THEN pre ELSE store

\* C19: a key that is stored stays stored: after every step of every run,
\* including an upsert that fails part-way, there is a row for it (it may be
\* absent only between the DELETE and the INSERT of an upsert under way).
C19_NeverLost ==
    [][\A k \in AllKeys :
          KeyCount(Committed, k) > 0 =>
             (KeyCount(store', k) > 0 \/ mpc' = "insert")]_vars

\* C20: every row of the table has a value in each of ema8, ema21 and ema50.
C20_EmasStored ==
    \A r \in DOMAIN store :
       \A k \in 1..Len(EMA_WINDOWS) :
          /\ EmaName(EMA_WINDOWS[k]) \in DOMAIN r
          /\ r[EmaName(EMA_WINDOWS[k])] # Null
          /\ Len(r[EmaName(EMA_WINDOWS[k])]) = 2

\* The table holds a bar that is not the first of its batch: its EMAs differ
\* from its close and from each other.
C20_Witness ==
    \E r \in DOMAIN store :
       /\ r.ema8 # Frac(r.close, 1)
       /\ r.ema8 # r.ema50

====
